---- MODULE Spec2Model ----
(***************************************************************************)
(* Session orchestration and study-plan state machine of the Socratic     *)
(* tutor routes (server/routes/socratic.js).                               *)
(*                                                                         *)
(* The session store is a function from the ids of the existing sessions  *)
(* to session documents.  Every route handler is one action: it finds the *)
(* session by (_id, userId), mutates the loaded document, saves it and    *)
(* answers with an HTTP status code.  The answers of the external         *)
(* reasoning service (ingest, chat, generate_plan) are inputs of the      *)
(* actions, failure included.                                             *)
(*                                                                         *)
(* Array indexes are kept 0-based as in the code; element i of a          *)
(* JavaScript array is element i + 1 of the TLA+ sequence.                 *)
(***************************************************************************)
EXTENDS Integers, Sequences, FiniteSets, TLC

VARIABLES
    store,      \* the SocraticSession collection: session _id -> document
    nextId,     \* the next fresh _id (ids are never reused)
    last,       \* history: the last request served, its route, inputs and answer
    edited,     \* history: the ids of the sessions a set-topic-status call has
                \* edited other than by completing a started topic
    inflight    \* the requests being served concurrently: for each, the
                \* handler's position and the document it holds in memory

vars == <<store, nextId, last, edited, inflight>>

----------------------------------------------------------------------------
(* Bounds of the model *)

MaxSessions == 2     \* sessions ever created
MaxUploads == 2      \* documents analyzed in the sessions of the collection
MaxMsgs == 5         \* entries of a transcript
MaxPlanLen == 2      \* topics of a generated plan

----------------------------------------------------------------------------
(* Inputs *)

Users == {"u1", "u2"}

\* Session ids are 1, 2, ...; a request without sessionId carries 0.
NoSessionId == 0
SessionIds == 1 .. MaxSessions

\* Uploaded files: content (bytes) and original name, both drawn from two values.
Contents == {"bytesA", "bytesB"}
FileNames == {1, 2}

\* Chat message texts and tutor replies.
Messages == {1}
Replies == {1}

\* The statuses a set-topic-status request can carry.
Statuses == {"pending", "in-progress", "completed"}

\* generate_plan answers: the topic lists <<>>, <<1>>, <<1, 2>>, ... up to
\* MaxPlanLen topics.  An item is {topic, description}.
PlanItem(t) == [topic |-> t, description |-> t]
PlanResponses == {[i \in 1 .. n |-> PlanItem(i)] : n \in 0 .. MaxPlanLen}

\* The answer with the most topics.
LongestPlan == CHOOSE p \in PlanResponses : Len(p) = MaxPlanLen

\* ingest answers: {cached, summary}, the summary being a text.
IngestResponses == [cached : BOOLEAN, summary : {1}]

\* chat answers: {response, topic_completed}.
ChatResponses == [response : Replies, topic_completed : BOOLEAN]

\* What a gateway call comes to: an answer, or a failure (axios throws).  The
\* data of a failure is never read; it is one fixed answer of the call.
Answer(data) == [ok |-> TRUE, data |-> data]
Failure(data) == [ok |-> FALSE, data |-> data]
Outcomes(responses) ==
    {Answer(r) : r \in responses} \cup {Failure(CHOOSE r \in responses : TRUE)}

\* What the chat call comes to.  Its failure carries the HTTP status of the
\* service's error response, which the handler forwards, or no response at all
\* (status 0: the service could not be reached).
ChatOutcomes ==
    [ok : {TRUE}, data : ChatResponses, status : {200}]
        \cup [ok : {FALSE}, data : {CHOOSE r \in ChatResponses : TRUE}, status : {0, 503}]

\* The :topicIndex path parameter, a string given as its characters: the
\* numerals of the indexes of a longest plan, and with them the numeral of the
\* index after the last, a negative one, a word and a numeral followed by a
\* letter.
Digits == <<"0", "1", "2", "3", "4", "5", "6", "7", "8", "9">>
Numeral(i) == <<Digits[i + 1]>>
IndexNumerals == {Numeral(i) : i \in 0 .. MaxPlanLen - 1}
IndexParams ==
    IndexNumerals \cup {Numeral(MaxPlanLen), <<"-", "1">>, <<"x">>, <<"1", "x">>}

----------------------------------------------------------------------------
(* Pure helpers *)

\* crypto sha256 of the file content, hex: one digest per content.
calculateFileHash(content) ==
    CASE content = "bytesA" -> "hashA"
      [] content = "bytesB" -> "hashB"

IsDigit(c) == \E d \in 1 .. 10 : Digits[d] = c
DigitVal(c) == (CHOOSE d \in 1 .. 10 : Digits[d] = c) - 1

RECURSIVE DigitPrefixLen(_)
DigitPrefixLen(s) ==
    IF s = <<>> \/ ~IsDigit(Head(s)) THEN 0 ELSE 1 + DigitPrefixLen(Tail(s))

RECURSIVE DigitsValue(_, _)
DigitsValue(s, n) ==
    IF n = 0 THEN 0 ELSE 10 * DigitsValue(s, n - 1) + DigitVal(s[n])

\* parseInt with the sign dropped, as Math.abs(parseInt(s)) would read it.
parseIntUnsigned(s) ==
    LET signed == s # <<>> /\ Head(s) \in {"-", "+"}
        body == IF signed THEN Tail(s) ELSE s
        n == DigitPrefixLen(body)
    IN  IF n = 0 THEN [nan |-> TRUE, val |-> 0]
        ELSE [nan |-> FALSE, val |-> DigitsValue(body, n)]

\* parseInt(string): an optional sign, then the longest prefix of decimal
\* digits; NaN when there is no digit.
parseInt(s) ==
    LET signed == s # <<>> /\ Head(s) \in {"-", "+"}
        body == IF signed THEN Tail(s) ELSE s
        n == DigitPrefixLen(body)
        v == DigitsValue(body, n)
    IN  IF n = 0 THEN [nan |-> TRUE, val |-> 0]
        ELSE [nan |-> FALSE, val |-> IF signed /\ Head(s) = "-" THEN 0 - v ELSE v]

\* array.includes(x)
Includes(seq, x) == \E i \in 1 .. Len(seq) : seq[i] = x

\* studyPlan[topicIndex] is an element (not undefined)
HasTopic(plan, idx) == ~idx.nan /\ idx.val >= 0 /\ idx.val < Len(plan)

\* the entries of a transcript that report an analyzed document
RECURSIVE Analyzed(_)
Analyzed(messages) ==
    IF messages = <<>> THEN 0
    ELSE (IF Head(messages).content.kind = "analyzed" THEN 1 ELSE 0) + Analyzed(Tail(messages))

RECURSIVE AnalyzedIn(_, _)
AnalyzedIn(st, ids) ==
    IF ids = {} THEN 0
    ELSE LET id == CHOOSE i \in ids : TRUE
         IN  Analyzed(st[id].messages) + AnalyzedIn(st, ids \ {id})

\* array with element i (0-based) given the status st
WithStatus(plan, i, st) == [plan EXCEPT ![i + 1].status = st]

----------------------------------------------------------------------------
(* Transcript entries *)

Msg(role, kind, a, b) == [role |-> role, content |-> [kind |-> kind, a |-> a, b |-> b]]

AnalyzedMsg(filename, summary) == Msg("assistant", "analyzed", filename, summary)
UserMsg(message) == Msg("user", "text", message, 0)
ReplyMsg(response) == Msg("assistant", "text", response, 0)
TopicCompletedMsg(done, next) == Msg("assistant", "topicCompleted", done, next)
CongratulationsMsg == Msg("assistant", "congratulations", 0, 0)
PlanGeneratedMsg(topic, description) == Msg("assistant", "planGenerated", topic, description)
GreatJobMsg(done, next) == Msg("assistant", "greatJob", done, next)
PlanCompletedMsg == Msg("assistant", "planCompleted", 0, 0)

----------------------------------------------------------------------------
(* The session document *)

\* Values the schema gives the fields a new document does not set.
SchemaDefaults ==
    [studyPlan |-> <<>>, currentTopicIndex |-> 0 - 1, learningLevel |-> "beginner"]

NewSession(userId) ==
    [userId |-> userId,
     fileHashes |-> <<>>,
     filenames |-> <<>>,
     messages |-> <<>>,
     studyPlan |-> SchemaDefaults.studyPlan,
     currentTopicIndex |-> SchemaDefaults.currentTopicIndex,
     learningLevel |-> SchemaDefaults.learningLevel]

\* findOne with the userId left out of the filter.
FoundById(st, sessionId, userId) == sessionId \in DOMAIN st

\* SocraticSession.findOne({ _id: sessionId, userId })
Found(st, sessionId, userId) ==
    sessionId \in DOMAIN st /\ st[sessionId].userId = userId

\* session.save(): the whole document replaces (or becomes) the stored one
Save(st, sessionId, session) ==
    [id \in DOMAIN st \cup {sessionId} |-> IF id = sessionId THEN session ELSE st[id]]

\* deleteOne with the userId left out of the filter.
DeleteOneById(st, sessionId, userId) ==
    [id \in {i \in DOMAIN st : i # sessionId} |-> st[id]]

\* SocraticSession.deleteOne({ _id: sessionId, userId })
DeleteOne(st, sessionId, userId) ==
    [id \in {i \in DOMAIN st : ~(i = sessionId /\ st[i].userId = userId)} |-> st[id]]

\* The record of a request: arg holds the inputs the handler has read.
Request(op, userId, sessionId, arg, code) ==
    [op |-> op, userId |-> userId, sessionId |-> sessionId, arg |-> arg, code |-> code]

NoArg == [none |-> TRUE]

\* The body of an answer that carries no document: null, or an error message.
NoDocument == [null |-> TRUE]

\* The requests served concurrently, and the state of one that is not being
\* served.
Tasks == {"t1", "t2"}
Idle ==
    [pc |-> "idle", op |-> "none", sessionId |-> NoSessionId, arg |-> NoArg,
     loaded |-> NoDocument, session |-> NoDocument, code |-> 0]
NoneInFlight == [t \in Tasks |-> Idle]

----------------------------------------------------------------------------
(* 1. POST /upload: attach-document *)

\* The file name pushed outside the test of the hash.
AddFileNameAlways(session, fileHash, filename, summary) ==
    LET s1 == IF ~Includes(session.fileHashes, fileHash)
              THEN [session EXCEPT !.fileHashes = Append(@, fileHash)]
              ELSE session
    IN  [s1 EXCEPT !.filenames = Append(@, filename),
                   !.messages = Append(@, AnalyzedMsg(filename, summary))]

\* Lines 79-87: file info added when the hash is new, then the summary entry.
AddFile(session, fileHash, filename, summary) ==
    LET s1 == IF ~Includes(session.fileHashes, fileHash)
              THEN [session EXCEPT !.fileHashes = Append(@, fileHash),
                                   !.filenames = Append(@, filename)]
              ELSE session
    IN  [s1 EXCEPT !.messages = Append(@, AnalyzedMsg(filename, summary))]

\* The session found or created and saved before the ingest call.
UploadSavingFirst(userId, sessionId, hasFile, content, filename, pyRes) ==
    LET found == sessionId # NoSessionId /\ Found(store, sessionId, userId)
        id == IF found THEN sessionId ELSE nextId
        session == IF found THEN store[sessionId] ELSE NewSession(userId)
        saved == IF pyRes.ok
                 THEN AddFile(session, calculateFileHash(content), filename, pyRes.data.summary)
                 ELSE session
        arg == [hasFile |-> hasFile, content |-> content, filename |-> filename,
                pyRes |-> pyRes, sessionId |-> id, unlinked |-> TRUE,
                ingestCalls |-> 1]
    IN  IF ~hasFile
        THEN /\ last' = Request("upload", userId, sessionId, [hasFile |-> FALSE], 400)
             /\ UNCHANGED <<store, nextId, edited, inflight>>
        ELSE /\ id <= MaxSessions
             /\ Len(saved.messages) <= MaxMsgs
             /\ store' = Save(store, id, saved)
             /\ AnalyzedIn(store', DOMAIN store') <= MaxUploads
             /\ nextId' = IF found THEN nextId ELSE nextId + 1
             /\ last' = IF pyRes.ok
                        THEN Request("upload", userId, sessionId, arg, 200)
                        ELSE Request("upload", userId, sessionId,
                                     [hasFile |-> TRUE, pyRes |-> pyRes,
                                      unlinked |-> FALSE, ingestCalls |-> 1], 500)
             /\ UNCHANGED <<edited, inflight>>

\* attach-document that looks the session up first and calls ingest only when
\* the hash of the file is not among its fileHashes.
UploadIngestingNew(userId, sessionId, hasFile, content, filename, pyRes) ==
    LET noFile == [hasFile |-> FALSE]
        failed == [hasFile |-> TRUE, pyRes |-> pyRes, unlinked |-> FALSE,
                   ingestCalls |-> 1]
        fileHash == calculateFileHash(content)
        found == sessionId # NoSessionId /\ Found(store, sessionId, userId)
        id == IF found THEN sessionId ELSE nextId
        session == IF found THEN store[sessionId] ELSE NewSession(userId)
        known == Includes(session.fileHashes, fileHash)
        saved == AddFile(session, fileHash, filename, pyRes.data.summary)
        arg == [hasFile |-> hasFile, content |-> content, filename |-> filename,
                pyRes |-> pyRes, sessionId |-> id, unlinked |-> TRUE,
                ingestCalls |-> IF known THEN 0 ELSE 1]
    IN  IF ~hasFile
        THEN /\ last' = Request("upload", userId, sessionId, noFile, 400)
             /\ UNCHANGED <<store, nextId, edited, inflight>>
        ELSE IF ~known /\ ~pyRes.ok
        THEN /\ last' = Request("upload", userId, sessionId, failed, 500)
             /\ UNCHANGED <<store, nextId, edited, inflight>>
        ELSE /\ pyRes.ok
             /\ id <= MaxSessions
             /\ Len(saved.messages) <= MaxMsgs
             /\ store' = Save(store, id, saved)
             /\ AnalyzedIn(store', DOMAIN store') <= MaxUploads
             /\ nextId' = IF found THEN nextId ELSE nextId + 1
             /\ last' = Request("upload", userId, sessionId, arg, 200)
             /\ UNCHANGED <<edited, inflight>>

\* unlinked records whether fs.unlinkSync(filepath) has run (line 92) when the
\* handler answers; a request without a file has no temporary file.
\* ingestCalls counts the axios.post to /ingest (line 56) the handler has made.
Upload(userId, sessionId, hasFile, content, filename, pyRes) ==
    LET noFile == [hasFile |-> FALSE]
        failed == [hasFile |-> TRUE, pyRes |-> pyRes, unlinked |-> FALSE,
                   ingestCalls |-> 1]
        fileHash == calculateFileHash(content)
        found == sessionId # NoSessionId /\ Found(store, sessionId, userId)
        id == IF found THEN sessionId ELSE nextId
        session == IF found THEN store[sessionId] ELSE NewSession(userId)
        saved == AddFile(session, fileHash, filename, pyRes.data.summary)
        arg == [hasFile |-> hasFile, content |-> content, filename |-> filename,
                pyRes |-> pyRes, sessionId |-> id, unlinked |-> TRUE,
                ingestCalls |-> 1]
    IN  IF ~hasFile
        THEN /\ last' = Request("upload", userId, sessionId, noFile, 400)
             /\ UNCHANGED <<store, nextId, edited, inflight>>
        ELSE IF ~pyRes.ok
        THEN /\ last' = Request("upload", userId, sessionId, failed, 500)
             /\ UNCHANGED <<store, nextId, edited, inflight>>
        ELSE /\ id <= MaxSessions
             /\ Len(saved.messages) <= MaxMsgs
             /\ store' = Save(store, id, saved)
             /\ AnalyzedIn(store', DOMAIN store') <= MaxUploads
             /\ nextId' = IF found THEN nextId ELSE nextId + 1
             /\ last' = Request("upload", userId, sessionId, arg, 200)
             /\ UNCHANGED <<edited, inflight>>

----------------------------------------------------------------------------
(* 2. POST /chat: send-message *)

\* Lines 126-128: the topic under the cursor, when the cursor is an index of the plan.
HasCurrentTopic(session) ==
    /\ Len(session.studyPlan) > 0
    /\ session.currentTopicIndex >= 0
    /\ session.currentTopicIndex < Len(session.studyPlan)

\* Automatic completion without the test that the current topic is not yet
\* completed.
AutoCompleteUntested(session, isTopicCompleted) ==
    LET plan == session.studyPlan
        currentIndex == session.currentTopicIndex
        nextIndex == currentIndex + 1
    IN  IF isTopicCompleted /\ HasCurrentTopic(session)
        THEN IF nextIndex < Len(plan)
             THEN [session EXCEPT
                     !.studyPlan = WithStatus(WithStatus(plan, currentIndex, "completed"),
                                              nextIndex, "in-progress"),
                     !.currentTopicIndex = nextIndex,
                     !.messages = Append(@, TopicCompletedMsg(plan[currentIndex + 1].topic,
                                                              plan[nextIndex + 1].topic))]
             ELSE [session EXCEPT
                     !.studyPlan = WithStatus(plan, currentIndex, "completed"),
                     !.messages = Append(@, CongratulationsMsg)]
        ELSE session

\* Automatic completion that starts the next topic and leaves the current one
\* as it is.
AutoCompleteKeepingCurrent(session, isTopicCompleted) ==
    LET plan == session.studyPlan
        currentIndex == session.currentTopicIndex
        nextIndex == currentIndex + 1
    IN  IF isTopicCompleted /\ HasCurrentTopic(session)
           /\ plan[currentIndex + 1].status # "completed"
        THEN IF nextIndex < Len(plan)
             THEN [session EXCEPT
                     !.studyPlan = WithStatus(plan, nextIndex, "in-progress"),
                     !.currentTopicIndex = nextIndex,
                     !.messages = Append(@, TopicCompletedMsg(plan[currentIndex + 1].topic,
                                                              plan[nextIndex + 1].topic))]
             ELSE [session EXCEPT
                     !.studyPlan = WithStatus(plan, currentIndex, "completed"),
                     !.messages = Append(@, CongratulationsMsg)]
        ELSE session

\* Automatic completion that does not move the cursor.
AutoCompleteCursorLeft(session, isTopicCompleted) ==
    LET plan == session.studyPlan
        currentIndex == session.currentTopicIndex
        nextIndex == currentIndex + 1
    IN  IF isTopicCompleted /\ HasCurrentTopic(session)
           /\ plan[currentIndex + 1].status # "completed"
        THEN IF nextIndex < Len(plan)
             THEN [session EXCEPT
                     !.studyPlan = WithStatus(WithStatus(plan, currentIndex, "completed"),
                                              nextIndex, "in-progress"),
                     !.messages = Append(@, TopicCompletedMsg(plan[currentIndex + 1].topic,
                                                              plan[nextIndex + 1].topic))]
             ELSE [session EXCEPT
                     !.studyPlan = WithStatus(plan, currentIndex, "completed"),
                     !.messages = Append(@, CongratulationsMsg)]
        ELSE session

\* Automatic completion that moves the cursor to nextIndex before the test
\* that a next topic exists.
AutoCompleteCursorFirst(session, isTopicCompleted) ==
    LET plan == session.studyPlan
        currentIndex == session.currentTopicIndex
        nextIndex == currentIndex + 1
    IN  IF isTopicCompleted /\ HasCurrentTopic(session)
           /\ plan[currentIndex + 1].status # "completed"
        THEN IF nextIndex < Len(plan)
             THEN [session EXCEPT
                     !.studyPlan = WithStatus(WithStatus(plan, currentIndex, "completed"),
                                              nextIndex, "in-progress"),
                     !.currentTopicIndex = nextIndex,
                     !.messages = Append(@, TopicCompletedMsg(plan[currentIndex + 1].topic,
                                                              plan[nextIndex + 1].topic))]
             ELSE [session EXCEPT
                     !.studyPlan = WithStatus(plan, currentIndex, "completed"),
                     !.currentTopicIndex = nextIndex,
                     !.messages = Append(@, CongratulationsMsg)]
        ELSE session

\* Automatic completion that announces the next topic and leaves its status.
AutoCompleteNextUnstarted(session, isTopicCompleted) ==
    LET plan == session.studyPlan
        currentIndex == session.currentTopicIndex
        nextIndex == currentIndex + 1
    IN  IF isTopicCompleted /\ HasCurrentTopic(session)
           /\ plan[currentIndex + 1].status # "completed"
        THEN IF nextIndex < Len(plan)
             THEN [session EXCEPT
                     !.studyPlan = WithStatus(plan, currentIndex, "completed"),
                     !.currentTopicIndex = nextIndex,
                     !.messages = Append(@, TopicCompletedMsg(plan[currentIndex + 1].topic,
                                                              plan[nextIndex + 1].topic))]
             ELSE [session EXCEPT
                     !.studyPlan = WithStatus(plan, currentIndex, "completed"),
                     !.messages = Append(@, CongratulationsMsg)]
        ELSE session

\* Lines 144-169: automatic topic completion.
AutoComplete(session, isTopicCompleted) ==
    LET plan == session.studyPlan
        currentIndex == session.currentTopicIndex
        nextIndex == currentIndex + 1
    IN  IF isTopicCompleted /\ HasCurrentTopic(session)
           /\ plan[currentIndex + 1].status # "completed"
        THEN IF nextIndex < Len(plan)
             THEN [session EXCEPT
                     !.studyPlan = WithStatus(WithStatus(plan, currentIndex, "completed"),
                                              nextIndex, "in-progress"),
                     !.currentTopicIndex = nextIndex,
                     !.messages = Append(@, TopicCompletedMsg(plan[currentIndex + 1].topic,
                                                              plan[nextIndex + 1].topic))]
             ELSE [session EXCEPT
                     !.studyPlan = WithStatus(plan, currentIndex, "completed"),
                     !.messages = Append(@, CongratulationsMsg)]
        ELSE session

\* The user message put at the head of the transcript (unshift for push).
WithUserMessageFirst(session, message) ==
    [session EXCEPT !.messages = <<UserMsg(message)>> \o @]

\* The user message pushed unless the transcript already ends with it.
WithUserMessageOnce(session, message) ==
    IF session.messages # <<>>
       /\ session.messages[Len(session.messages)] = UserMsg(message)
    THEN session
    ELSE [session EXCEPT !.messages = Append(@, UserMsg(message))]

\* Lines 118-120: the user message is pushed and saved before the gateway call.
WithUserMessage(session, message) ==
    [session EXCEPT !.messages = Append(@, UserMsg(message))]

\* The reply pushed after the automatic step has run.
WithReplyAfterStep(session, data) ==
    [AutoComplete(session, data.topic_completed) EXCEPT
        !.messages = Append(@, ReplyMsg(data.response))]

\* Lines 138-171: the reply is pushed, the automatic step runs.
WithReply(session, data) ==
    AutoComplete([session EXCEPT !.messages = Append(@, ReplyMsg(data.response))],
                 data.topic_completed)

\* message 0 is a missing message.  Lines 175-179: a failure answers with
\* error.response?.status || 500.
\* maxMsgs is the longest transcript the handler is followed to.
ChatWithin(maxMsgs, userId, sessionId, message, pyRes) ==
    LET arg == [message |-> message, pyRes |-> pyRes]
        uncalled == [message |-> message]
        asked == WithUserMessage(store[sessionId], message)
        saved == WithReply(asked, pyRes.data)
    IN  IF message = 0 \/ sessionId = NoSessionId
        THEN /\ last' = Request("chat", userId, sessionId, uncalled, 400)
             /\ UNCHANGED <<store, nextId, edited, inflight>>
        ELSE IF ~Found(store, sessionId, userId)
        THEN /\ last' = Request("chat", userId, sessionId, uncalled, 404)
             /\ UNCHANGED <<store, nextId, edited, inflight>>
        ELSE IF ~pyRes.ok
        THEN /\ Len(asked.messages) <= maxMsgs
             /\ store' = Save(store, sessionId, asked)
             /\ last' = Request("chat", userId, sessionId, arg,
                                IF pyRes.status = 0 THEN 500 ELSE pyRes.status)
             /\ UNCHANGED <<nextId, edited, inflight>>
        ELSE /\ Len(saved.messages) <= maxMsgs
             /\ store' = Save(store, sessionId, saved)
             /\ last' = Request("chat", userId, sessionId, arg, 200)
             /\ UNCHANGED <<nextId, edited, inflight>>

\* The handler on transcripts of at most MaxMsgs entries.
Chat(userId, sessionId, message, pyRes) ==
    ChatWithin(MaxMsgs, userId, sessionId, message, pyRes)

----------------------------------------------------------------------------
(* 3. GET /sessions: list-sessions *)

\* array.join(', '): the elements with the separator (written 0) between them.
RECURSIVE Join(_)
Join(seq) ==
    IF Len(seq) <= 1 THEN seq ELSE <<Head(seq), 0>> \o Join(Tail(seq))

\* Lines 189-195: the entry of one session in the list.  The timestamps are not
\* modelled.
Formatted(id, session) ==
    [_id |-> id,
     filename |-> IF Join(session.filenames) = <<>> THEN <<"Untitled Session">>
                  ELSE Join(session.filenames),
     filenames |-> session.filenames]

\* find({ userId }) with the entries formatted; the order (by updatedAt) is not
\* modelled, the answer is the set of entries.
ListSessions(userId) ==
    /\ last' = Request("list", userId, NoSessionId,
                       [result |-> {Formatted(id, store[id]) :
                                       id \in {i \in DOMAIN store : store[i].userId = userId}}],
                       200)
    /\ UNCHANGED <<store, nextId, edited, inflight>>

----------------------------------------------------------------------------
(* 4. GET /history/:sessionId: get-session *)

\* get-session answering the session found by _id alone.
GetSessionById(userId, sessionId) ==
    IF sessionId \in DOMAIN store
    THEN /\ last' = Request("get", userId, sessionId,
                            [_id |-> sessionId, result |-> store[sessionId]], 200)
         /\ UNCHANGED <<store, nextId, edited, inflight>>
    ELSE /\ last' = Request("get", userId, sessionId,
                            [_id |-> sessionId, result |-> NoDocument], 404)
         /\ UNCHANGED <<store, nextId, edited, inflight>>

GetSession(userId, sessionId) ==
    IF Found(store, sessionId, userId)
    THEN /\ last' = Request("get", userId, sessionId,
                            [_id |-> sessionId, result |-> store[sessionId]], 200)
         /\ UNCHANGED <<store, nextId, edited, inflight>>
    ELSE /\ last' = Request("get", userId, sessionId,
                            [_id |-> sessionId, result |-> NoDocument], 404)
         /\ UNCHANGED <<store, nextId, edited, inflight>>

----------------------------------------------------------------------------
(* 5. DELETE /history/:sessionId: delete-session *)

\* deletedCount is what deleteOne reports; the handler does not read it.
DeleteSession(userId, sessionId) ==
    /\ store' = DeleteOne(store, sessionId, userId)
    /\ last' = Request("delete", userId, sessionId,
                       [deletedCount |-> Cardinality(DOMAIN store) - Cardinality(DOMAIN store')],
                       200)
    /\ UNCHANGED <<nextId, edited, inflight>>

----------------------------------------------------------------------------
(* 6. PUT /session/:sessionId/level: set-level *)

Levels == {"beginner", "intermediate", "advanced"}

\* The level of a request: a level, another word, or "" for a body without one.
LevelInputs == Levels \cup {"expert", ""}

\* The update that also discards the plan of the session, as if a plan were
\* made for one level.
FindOneAndUpdateDroppingPlan(st, sessionId, userId, level) ==
    IF Found(st, sessionId, userId)
    THEN [st EXCEPT ![sessionId].learningLevel = level,
                    ![sessionId].studyPlan = <<>>,
                    ![sessionId].currentTopicIndex = 0 - 1]
    ELSE st

\* findOneAndUpdate({ _id, userId }, { learningLevel: level }, { new: true }):
\* the collection after it.
FindOneAndUpdate(st, sessionId, userId, level) ==
    IF Found(st, sessionId, userId)
    THEN [st EXCEPT ![sessionId].learningLevel = level]
    ELSE st

\* set-level with the update issued before the level is validated.
SetLevelUnvalidated(userId, sessionId, level) ==
    /\ store' = FindOneAndUpdate(store, sessionId, userId, level)
    /\ last' = IF level \notin Levels
               THEN Request("level", userId, sessionId, [level |-> level], 400)
               ELSE Request("level", userId, sessionId,
                            [level |-> level,
                             result |-> IF Found(store', sessionId, userId)
                                        THEN store'[sessionId] ELSE NoDocument],
                            200)
    /\ UNCHANGED <<nextId, edited, inflight>>

\* The answer is the updated document, or null when no session matched.
SetLevel(userId, sessionId, level) ==
    IF level \notin Levels
    THEN /\ last' = Request("level", userId, sessionId, [level |-> level], 400)
         /\ UNCHANGED <<store, nextId, edited, inflight>>
    ELSE /\ store' = FindOneAndUpdate(store, sessionId, userId, level)
         /\ last' = Request("level", userId, sessionId,
                            [level |-> level,
                             result |-> IF Found(store', sessionId, userId)
                                        THEN store'[sessionId] ELSE NoDocument],
                            200)
         /\ UNCHANGED <<nextId, edited, inflight>>

----------------------------------------------------------------------------
(* 7. POST /session/:sessionId/plan: generate-plan *)

\* The new plan merged into the old one: a topic keeps the status the old plan
\* has at its index.
ReplacePlanMerging(session, study_plan) ==
    LET old == session.studyPlan
        plan == [i \in 1 .. Len(study_plan) |->
                    [topic |-> study_plan[i].topic,
                     description |-> study_plan[i].description,
                     status |-> IF i <= Len(old) THEN old[i].status ELSE "pending"]]
    IN  IF Len(plan) > 0
        THEN [session EXCEPT
                !.studyPlan = WithStatus(plan, 0, "in-progress"),
                !.currentTopicIndex = 0,
                !.messages = Append(@, PlanGeneratedMsg(plan[1].topic, plan[1].description))]
        ELSE [session EXCEPT !.studyPlan = plan]

\* The transcript assigned anew with the announcement, for the push.
ReplacePlanNewTranscript(session, study_plan) ==
    LET plan == [i \in 1 .. Len(study_plan) |->
                    [topic |-> study_plan[i].topic,
                     description |-> study_plan[i].description,
                     status |-> "pending"]]
    IN  IF Len(plan) > 0
        THEN [session EXCEPT
                !.studyPlan = WithStatus(plan, 0, "in-progress"),
                !.currentTopicIndex = 0,
                !.messages = <<PlanGeneratedMsg(plan[1].topic, plan[1].description)>>]
        ELSE [session EXCEPT !.studyPlan = plan]

\* Lines 260-275: the plan is rebuilt from the answer, the first topic started.
ReplacePlan(session, study_plan) ==
    LET plan == [i \in 1 .. Len(study_plan) |->
                    [topic |-> study_plan[i].topic,
                     description |-> study_plan[i].description,
                     status |-> "pending"]]
    IN  IF Len(plan) > 0
        THEN [session EXCEPT
                !.studyPlan = WithStatus(plan, 0, "in-progress"),
                !.currentTopicIndex = 0,
                !.messages = Append(@, PlanGeneratedMsg(plan[1].topic, plan[1].description))]
        ELSE [session EXCEPT !.studyPlan = plan]

\* generate-plan with the old plan cleared and saved before the gateway call.
GeneratePlanClearingFirst(userId, sessionId, pyRes) ==
    LET arg == [pyRes |-> pyRes]
        cleared == [store[sessionId] EXCEPT !.studyPlan = <<>>]
        saved == ReplacePlan(cleared, pyRes.data)
    IN  IF ~Found(store, sessionId, userId)
        THEN /\ last' = Request("plan", userId, sessionId, NoArg, 404)
             /\ UNCHANGED <<store, nextId, edited, inflight>>
        ELSE IF ~pyRes.ok
        THEN /\ store' = Save(store, sessionId, cleared)
             /\ last' = Request("plan", userId, sessionId, arg, 500)
             /\ UNCHANGED <<nextId, edited, inflight>>
        ELSE /\ Len(saved.messages) <= MaxMsgs
             /\ store' = Save(store, sessionId, saved)
             /\ last' = Request("plan", userId, sessionId, arg, 200)
             /\ UNCHANGED <<nextId, edited, inflight>>

GeneratePlan(userId, sessionId, pyRes) ==
    LET arg == [pyRes |-> pyRes]
        saved == ReplacePlan(store[sessionId], pyRes.data)
    IN  IF ~Found(store, sessionId, userId)
        THEN /\ last' = Request("plan", userId, sessionId, NoArg, 404)
             /\ UNCHANGED <<store, nextId, edited, inflight>>
        ELSE IF ~pyRes.ok
        THEN /\ last' = Request("plan", userId, sessionId, arg, 500)
             /\ UNCHANGED <<store, nextId, edited, inflight>>
        ELSE /\ Len(saved.messages) <= MaxMsgs
             /\ store' = Save(store, sessionId, saved)
             /\ last' = Request("plan", userId, sessionId, arg, 200)
             /\ UNCHANGED <<nextId, edited, inflight>>

----------------------------------------------------------------------------
(* 8. PUT /session/:sessionId/topic/:topicIndex: set-topic-status *)

\* The manual transition without the promotion of the next topic.
UpdateTopicNoPromotion(session, topicIndex, status) ==
    LET plan == WithStatus(session.studyPlan, topicIndex, status)
        s1 == [session EXCEPT !.studyPlan = plan]
        nextIndex == topicIndex + 1
    IN  IF status = "completed"
        THEN IF nextIndex < Len(plan)
             THEN s1
             ELSE [s1 EXCEPT !.messages = Append(@, PlanCompletedMsg)]
        ELSE IF status = "in-progress"
        THEN [s1 EXCEPT !.currentTopicIndex = topicIndex]
        ELSE s1

\* The manual transition with the cursor moved to nextIndex before the test
\* that a next topic exists.
UpdateTopicCursorFirst(session, topicIndex, status) ==
    LET plan == WithStatus(session.studyPlan, topicIndex, status)
        s1 == [session EXCEPT !.studyPlan = plan]
        nextIndex == topicIndex + 1
    IN  IF status = "completed"
        THEN IF nextIndex < Len(plan)
             THEN IF plan[nextIndex + 1].status = "pending"
                  THEN [s1 EXCEPT
                          !.studyPlan = WithStatus(plan, nextIndex, "in-progress"),
                          !.currentTopicIndex = nextIndex,
                          !.messages = Append(@, GreatJobMsg(plan[topicIndex + 1].topic,
                                                             plan[nextIndex + 1].topic))]
                  ELSE s1
             ELSE [s1 EXCEPT !.currentTopicIndex = nextIndex,
                             !.messages = Append(@, PlanCompletedMsg)]
        ELSE IF status = "in-progress"
        THEN [s1 EXCEPT !.currentTopicIndex = topicIndex]
        ELSE s1

\* The manual transition that starts the next topic whatever its status.
UpdateTopicPromotingAlways(session, topicIndex, status) ==
    LET plan == WithStatus(session.studyPlan, topicIndex, status)
        s1 == [session EXCEPT !.studyPlan = plan]
        nextIndex == topicIndex + 1
    IN  IF status = "completed"
        THEN IF nextIndex < Len(plan)
             THEN [s1 EXCEPT
                     !.studyPlan = WithStatus(plan, nextIndex, "in-progress"),
                     !.currentTopicIndex = nextIndex,
                     !.messages = Append(@, GreatJobMsg(plan[topicIndex + 1].topic,
                                                        plan[nextIndex + 1].topic))]
             ELSE [s1 EXCEPT !.messages = Append(@, PlanCompletedMsg)]
        ELSE IF status = "in-progress"
        THEN [s1 EXCEPT !.currentTopicIndex = topicIndex]
        ELSE s1

\* The manual transition that, on in-progress, puts every other topic in
\* progress back to pending.
UpdateTopicSingleActive(session, topicIndex, status) ==
    LET plan == WithStatus(session.studyPlan, topicIndex, status)
        s1 == [session EXCEPT !.studyPlan = plan]
        nextIndex == topicIndex + 1
    IN  IF status = "completed"
        THEN IF nextIndex < Len(plan)
             THEN IF plan[nextIndex + 1].status = "pending"
                  THEN [s1 EXCEPT
                          !.studyPlan = WithStatus(plan, nextIndex, "in-progress"),
                          !.currentTopicIndex = nextIndex,
                          !.messages = Append(@, GreatJobMsg(plan[topicIndex + 1].topic,
                                                             plan[nextIndex + 1].topic))]
                  ELSE s1
             ELSE [s1 EXCEPT !.messages = Append(@, PlanCompletedMsg)]
        ELSE IF status = "in-progress"
        THEN [s1 EXCEPT
                !.studyPlan =
                    [j \in 1 .. Len(plan) |->
                        IF j # topicIndex + 1 /\ plan[j].status = "in-progress"
                        THEN [plan[j] EXCEPT !.status = "pending"]
                        ELSE plan[j]],
                !.currentTopicIndex = topicIndex]
        ELSE s1

\* Lines 301-325: the manual transition.
UpdateTopic(session, topicIndex, status) ==
    LET plan == WithStatus(session.studyPlan, topicIndex, status)
        s1 == [session EXCEPT !.studyPlan = plan]
        nextIndex == topicIndex + 1
    IN  IF status = "completed"
        THEN IF nextIndex < Len(plan)
             THEN IF plan[nextIndex + 1].status = "pending"
                  THEN [s1 EXCEPT
                          !.studyPlan = WithStatus(plan, nextIndex, "in-progress"),
                          !.currentTopicIndex = nextIndex,
                          !.messages = Append(@, GreatJobMsg(plan[topicIndex + 1].topic,
                                                             plan[nextIndex + 1].topic))]
                  ELSE s1
             ELSE [s1 EXCEPT !.messages = Append(@, PlanCompletedMsg)]
        ELSE IF status = "in-progress"
        THEN [s1 EXCEPT !.currentTopicIndex = topicIndex]
        ELSE s1

\* A call that completes a topic already started (in-progress or completed).
CompletesStarted(session, topicIndex, status) ==
    /\ status = "completed"
    /\ session.studyPlan[topicIndex + 1].status \in {"in-progress", "completed"}

SetTopicStatus(userId, sessionId, param, status) ==
    LET arg == [param |-> param, status |-> status]
        unread == [param |-> param]
        topicIndex == parseInt(param)
        session == store[sessionId]
        saved == UpdateTopic(session, topicIndex.val, status)
    IN  IF ~Found(store, sessionId, userId)
        THEN /\ last' = Request("topic", userId, sessionId, unread, 404)
             /\ UNCHANGED <<store, nextId, edited, inflight>>
        ELSE IF ~HasTopic(session.studyPlan, topicIndex)
        THEN /\ last' = Request("topic", userId, sessionId, unread, 400)
             /\ UNCHANGED <<store, nextId, edited, inflight>>
        ELSE /\ Len(saved.messages) <= MaxMsgs
             /\ store' = Save(store, sessionId, saved)
             /\ last' = Request("topic", userId, sessionId, arg, 200)
             /\ edited' = IF CompletesStarted(session, topicIndex.val, status)
                           THEN edited ELSE edited \cup {sessionId}
             /\ UNCHANGED <<nextId, inflight>>

----------------------------------------------------------------------------
(* Specifications *)

NoRequest == Request("none", "u1", NoSessionId, NoArg, 0)

\* After construction: an empty collection.
Init ==
    /\ store = <<>>
    /\ nextId = 1
    /\ last = NoRequest
    /\ edited = {}
    /\ inflight = NoneInFlight

\* The session ids a client can send: those handed out so far, or none.
KnownIds == 0 .. nextId - 1

\* A request without a file has no content, name or ingest answer to read;
\* one whose ingest fails has no answer.
UploadAct ==
    \E userId \in Users, sessionId \in KnownIds :
        \/ Upload(userId, sessionId, FALSE, "bytesA", 1, Failure(0))
        \/ \E content \in Contents, filename \in FileNames :
              \/ Upload(userId, sessionId, TRUE, content, filename, Failure(0))
              \/ \E data \in IngestResponses :
                    Upload(userId, sessionId, TRUE, content, filename, Answer(data))

ChatAct ==
    \E userId \in Users, sessionId \in SessionIds \cup {NoSessionId},
       message \in Messages \cup {0}, pyRes \in ChatOutcomes :
        Chat(userId, sessionId, message, pyRes)

DeleteAct ==
    \E userId \in Users, sessionId \in KnownIds \ {NoSessionId} :
        DeleteSession(userId, sessionId)

ListAct == \E userId \in Users : ListSessions(userId)

GetAct == \E userId \in Users, sessionId \in SessionIds : GetSession(userId, sessionId)

LevelAct ==
    \E userId \in Users, sessionId \in SessionIds, level \in LevelInputs :
        SetLevel(userId, sessionId, level)

PlanAct ==
    \E userId \in Users, sessionId \in SessionIds, pyRes \in Outcomes(PlanResponses) :
        GeneratePlan(userId, sessionId, pyRes)

TopicAct ==
    \E userId \in Users, sessionId \in SessionIds, param \in IndexParams,
       status \in Statuses :
        SetTopicStatus(userId, sessionId, param, status)

Next ==
    UploadAct \/ ChatAct \/ ListAct \/ GetAct \/ DeleteAct \/ LevelAct \/ PlanAct \/ TopicAct

Spec == Init /\ [][Next]_vars

----------------------------------------------------------------------------
(* The study plan of one session: the collection holds the session a first
   upload has created, and its owner sends chat messages, generates plans
   and sets the status of a topic, named by the numeral of an index. *)

FirstUpload ==
    [hasFile |-> TRUE, content |-> "bytesA", filename |-> 1,
     pyRes |-> Answer([cached |-> FALSE, summary |-> 1]), sessionId |-> 1,
     unlinked |-> TRUE, ingestCalls |-> 1]

InitPlan ==
    /\ store = Save(<<>>, 1, AddFile(NewSession("u1"), calculateFileHash("bytesA"), 1, 1))
    /\ nextId = 2
    /\ last = Request("upload", "u1", NoSessionId, FirstUpload, 200)
    /\ edited = {}
    /\ inflight = NoneInFlight

ChatOwn ==
    \E sessionId \in DOMAIN store, message \in Messages,
       pyRes \in ChatOutcomes :
        Chat(store[sessionId].userId, sessionId, message, pyRes)

PlanOwn ==
    \E sessionId \in DOMAIN store, pyRes \in Outcomes(PlanResponses) :
        GeneratePlan(store[sessionId].userId, sessionId, pyRes)

TopicOwn ==
    \E sessionId \in DOMAIN store, param \in IndexNumerals, status \in Statuses :
        SetTopicStatus(store[sessionId].userId, sessionId, param, status)

NextPlan == ChatOwn \/ PlanOwn \/ TopicOwn

SpecPlan == InitPlan /\ [][NextPlan]_vars

----------------------------------------------------------------------------
(* The topic index of set-topic-status: plans are generated and topic
   statuses set with every kind of :topicIndex parameter. *)

TopicAnyIndex ==
    \E sessionId \in DOMAIN store, param \in IndexParams, status \in Statuses :
        SetTopicStatus(store[sessionId].userId, sessionId, param, status)

NextIndex == PlanOwn \/ TopicAnyIndex

SpecIndex == InitPlan /\ [][NextIndex]_vars

----------------------------------------------------------------------------
(* Left to right: a plan is generated, then its topics are set completed in
   order, topic 0 first, each call following the generation or the call on
   the topic before; a new plan can be generated at any time. *)

LastIndex == parseInt(last.arg.param).val

LeftToRight ==
    \E sessionId \in DOMAIN store :
        /\ last.code = 200
        /\ last.op \in {"plan", "topic"}
        /\ LET i == IF last.op = "plan" THEN 0 ELSE LastIndex + 1
           IN  /\ i < Len(store[sessionId].studyPlan)
               /\ SetTopicStatus(store[sessionId].userId, sessionId, Numeral(i), "completed")

NextLTR == PlanOwn \/ LeftToRight

SpecLTR == InitPlan /\ [][NextLTR]_vars

----------------------------------------------------------------------------
(* Concurrent requests on one session.  The session of "u1" has a document
   and a plan of MaxPlanLen topics.  Each of the requests in Tasks is one
   send-message or one set-topic-status of the owner, served in the steps its
   awaits cut the handler into: findOne, save, (the chat call and) save; at
   pc "done" the handler has answered with the code.  A get-session reads the
   collection between any two steps. *)

\* A save that is refused when the stored transcript is not the beginning of
\* the document's (a version check).
SaveLoadedIfCurrent(st, sessionId, session) ==
    IF /\ Len(st[sessionId].messages) <= Len(session.messages)
       /\ \A i \in 1 .. Len(st[sessionId].messages) :
              st[sessionId].messages[i] = session.messages[i]
    THEN [st EXCEPT ![sessionId] = session]
    ELSE st

\* session.save() of a document loaded earlier: the whole document replaces
\* the stored one, whatever has been saved since it was loaded.
SaveLoaded(st, sessionId, session) == [st EXCEPT ![sessionId] = session]

InitRace ==
    /\ store = Save(<<>>, 1,
                    ReplacePlan(AddFile(NewSession("u1"), calculateFileHash("bytesA"), 1, 1),
                                LongestPlan))
    /\ nextId = 2
    /\ last = Request("plan", "u1", 1, [pyRes |-> Answer(LongestPlan)], 200)
    /\ edited = {}
    /\ inflight = NoneInFlight

\* Lines 115-119: the session is found and the user message pushed.
ChatFind(t) ==
    \E sessionId \in DOMAIN store, message \in Messages :
        /\ inflight[t].pc = "idle"
        /\ Len(store[sessionId].messages) < MaxMsgs
        /\ inflight' = [inflight EXCEPT ![t] =
               [pc |-> "found", op |-> "chat", sessionId |-> sessionId,
                arg |-> [message |-> message],
                loaded |-> store[sessionId],
                session |-> WithUserMessage(store[sessionId], message),
                code |-> 0]]
        /\ UNCHANGED <<store, nextId, last, edited>>

\* Line 120: the first save.
ChatSaveUser(t) ==
    /\ inflight[t].pc = "found" /\ inflight[t].op = "chat"
    /\ store' = SaveLoaded(store, inflight[t].sessionId, inflight[t].session)
    /\ inflight' = [inflight EXCEPT ![t].pc = "asked"]
    /\ UNCHANGED <<nextId, last, edited>>

\* Lines 130-179: the chat call answers or fails; on an answer the reply is
\* pushed, the automatic step runs and the session is saved.
ChatAnswer(t) ==
    \E pyRes \in ChatOutcomes :
        LET saved == WithReply(inflight[t].session, pyRes.data)
            arg == [message |-> inflight[t].arg.message, pyRes |-> pyRes]
        IN  /\ inflight[t].pc = "asked"
            /\ IF pyRes.ok
               THEN /\ Len(saved.messages) <= MaxMsgs
                    /\ store' = SaveLoaded(store, inflight[t].sessionId, saved)
                    /\ inflight' = [inflight EXCEPT ![t].pc = "done", ![t].arg = arg,
                                                    ![t].session = saved, ![t].code = 200]
               ELSE /\ store' = store
                    /\ inflight' = [inflight EXCEPT
                           ![t].pc = "done", ![t].arg = arg,
                           ![t].code = IF pyRes.status = 0 THEN 500 ELSE pyRes.status]
            /\ UNCHANGED <<nextId, last, edited>>

\* Lines 294-325: the session is found, the index checked and the transition
\* applied to the document in memory.
TopicFind(t) ==
    \E sessionId \in DOMAIN store, param \in IndexNumerals, status \in Statuses :
        LET topicIndex == parseInt(param)
            arg == [param |-> param, status |-> status]
            session == UpdateTopic(store[sessionId], topicIndex.val, status)
        IN  /\ inflight[t].pc = "idle"
            /\ HasTopic(store[sessionId].studyPlan, topicIndex)
            /\ Len(session.messages) <= MaxMsgs
            /\ inflight' = [inflight EXCEPT ![t] =
                   [pc |-> "found", op |-> "topic", sessionId |-> sessionId,
                    arg |-> arg, loaded |-> store[sessionId], session |-> session,
                    code |-> 0]]
            /\ UNCHANGED <<store, nextId, last, edited>>

\* Line 327: the save.
TopicSave(t) ==
    /\ inflight[t].pc = "found" /\ inflight[t].op = "topic"
    /\ store' = SaveLoaded(store, inflight[t].sessionId, inflight[t].session)
    /\ inflight' = [inflight EXCEPT ![t].pc = "done", ![t].code = 200]
    /\ UNCHANGED <<nextId, last, edited>>

\* get-session is one read of the collection.
GetRace ==
    \E sessionId \in DOMAIN store :
        /\ GetSession("u1", sessionId)
        /\ \E t \in Tasks : inflight[t].pc # "idle"

NextRace ==
    \/ \E t \in Tasks :
          \/ ChatFind(t) \/ ChatSaveUser(t) \/ ChatAnswer(t)
          \/ TopicFind(t) \/ TopicSave(t)
    \/ GetRace

SpecRace == InitRace /\ [][NextRace]_vars

----------------------------------------------------------------------------
(* Properties *)

InProgress(plan) == {i \in 1 .. Len(plan) : plan[i].status = "in-progress"}
AllCompleted(plan) == \A i \in 1 .. Len(plan) : plan[i].status = "completed"
LastMsg(session) == session.messages[Len(session.messages)]

\* The session of the last request, after it.
LastSession == store[last.sessionId]

\* C1, as stated: in every state reached by generate-plan, send-message and
\* set-topic-status requests (any index, any status), at most one topic of a
\* plan is in-progress.
C1_AtMostOneInProgress ==
    \A sid \in DOMAIN store : Cardinality(InProgress(store[sid].studyPlan)) <= 1

\* C1, amended: at most one topic of a plan is in-progress as long as every
\* set-topic-status request on the session has completed a topic that was
\* in-progress or completed.
C1_AtMostOneInProgressUnedited ==
    \A sid \in DOMAIN store \ edited :
        Cardinality(InProgress(store[sid].studyPlan)) <= 1

\* A set-topic-status request has completed topic 0 of an unedited session and
\* started topic 1.
C1_Witness ==
    /\ last.op = "topic" /\ last.code = 200
    /\ last.sessionId \notin edited
    /\ InProgress(LastSession.studyPlan) = {2}

\* The cursor points at the in-progress topic, or every topic is completed.
CursorConsistent(session) ==
    HasCurrentTopic(session) =>
        \/ session.studyPlan[session.currentTopicIndex + 1].status = "in-progress"
        \/ AllCompleted(session.studyPlan)

\* C2, as stated: in every state reached by generate-plan, send-message and
\* set-topic-status requests, a cursor that is an index of the plan points at
\* an in-progress topic, unless every topic is completed.
C2_CursorConsistent == \A sid \in DOMAIN store : CursorConsistent(store[sid])

\* C2, amended: the same, as long as every set-topic-status request on the
\* session has completed a topic that was in-progress or completed.
C2_CursorConsistentUnedited ==
    \A sid \in DOMAIN store \ edited : CursorConsistent(store[sid])

\* A chat answer has completed the last topic of an unedited session: the
\* cursor points at a completed topic and every topic is completed.
C2_Witness ==
    /\ last.op = "chat" /\ last.code = 200
    /\ last.sessionId \notin edited
    /\ HasCurrentTopic(LastSession)
    /\ AllCompleted(LastSession.studyPlan)
    /\ LastMsg(LastSession) = CongratulationsMsg

\* C3: on a freshly generated plan of N >= 1 topics, after the call
\* set-topic-status(i, completed) of the left-to-right run exactly one topic
\* is in-progress when i < N - 1, and after the call on the last topic every
\* topic is completed and none is in-progress.
C3_LeftToRight ==
    (last.op = "topic" /\ last.code = 200) =>
        LET plan == LastSession.studyPlan
        IN  IF LastIndex < Len(plan) - 1
            THEN Cardinality(InProgress(plan)) = 1
            ELSE AllCompleted(plan) /\ InProgress(plan) = {}

\* The left-to-right run has completed the last topic of a longest plan.
C3_Witness ==
    /\ last.op = "topic" /\ last.code = 200
    /\ Len(LastSession.studyPlan) = MaxPlanLen
    /\ LastIndex = MaxPlanLen - 1
    /\ AllCompleted(LastSession.studyPlan)

\* C4: in the left-to-right run on a fresh plan of N topics, the call on
\* topic i < N - 1 sets the cursor to i + 1 and appends exactly one
\* transition entry; the call on the last topic leaves the cursor at N - 1,
\* changes the status of no other topic and appends exactly one
\* plan-complete entry.
C4_LeftToRightStep ==
    [][(last'.op = "topic" /\ last'.code = 200) =>
        LET sid == last'.sessionId
            before == store[sid]
            after == store'[sid]
            plan == before.studyPlan
            i == parseInt(last'.arg.param).val
        IN  IF i < Len(plan) - 1
            THEN /\ after.currentTopicIndex = i + 1
                 /\ after.messages =
                        Append(before.messages, GreatJobMsg(plan[i + 1].topic, plan[i + 2].topic))
            ELSE /\ before.currentTopicIndex = Len(plan) - 1
                 /\ after.currentTopicIndex = Len(plan) - 1
                 /\ \A j \in 1 .. Len(plan) : j # i + 1 => after.studyPlan[j] = plan[j]
                 /\ after.messages = Append(before.messages, PlanCompletedMsg)]_vars

\* The call on the last topic of a plan of two or more topics has appended
\* the plan-complete entry.
C4_Witness ==
    /\ last.op = "topic" /\ last.code = 200
    /\ Len(LastSession.studyPlan) >= 2
    /\ LastIndex = Len(LastSession.studyPlan) - 1
    /\ LastSession.currentTopicIndex = LastIndex
    /\ LastMsg(LastSession) = PlanCompletedMsg

\* The plan a generate_plan answer asks for: its topics in order, the first
\* in-progress and the others pending.
PlanOf(study_plan) ==
    [i \in 1 .. Len(study_plan) |->
        [topic |-> study_plan[i].topic,
         description |-> study_plan[i].description,
         status |-> IF i = 1 THEN "in-progress" ELSE "pending"]]

\* C5: after a successful generate-plan, whatever plan the session had, the
\* plan has the length and the topics of the answer in order, topic 0
\* in-progress and the others pending, and the cursor is 0 when the answer is
\* not empty.
C5_PlanReplaced ==
    (last.op = "plan" /\ last.code = 200) =>
        /\ LastSession.studyPlan = PlanOf(last.arg.pyRes.data)
        /\ Len(last.arg.pyRes.data) > 0 => LastSession.currentTopicIndex = 0

\* A plan has been generated on a session whose earlier plan had moved on: a
\* transition entry stands in the transcript before the new announcement.
C5_Witness ==
    /\ last.op = "plan" /\ last.code = 200
    /\ Len(LastSession.studyPlan) > 0
    /\ \E k \in 1 .. Len(LastSession.messages) :
           LastSession.messages[k].content.kind \in {"greatJob", "topicCompleted"}

\* C6: after any sequence of attach-document requests, the fingerprints of a
\* session hold no duplicate and there are as many names as fingerprints.
C6_FingerprintsUnique ==
    \A sid \in DOMAIN store :
        LET s == store[sid]
        IN  /\ \A i, j \in 1 .. Len(s.fileHashes) :
                   s.fileHashes[i] = s.fileHashes[j] => i = j
            /\ Len(s.filenames) = Len(s.fileHashes)

\* The same bytes have been attached to a session under two names: two
\* entries, one fingerprint.
C6_Witness ==
    \E sid \in DOMAIN store :
        LET s == store[sid]
        IN  /\ Len(s.messages) = 2
            /\ s.messages[1].content.a # s.messages[2].content.a
            /\ Len(s.fileHashes) = 1

\* C7: delete-session on an id that names no session of the caller (deleted
\* before, or owned by someone else) answers 200 and leaves the collection as
\* it is, so that a second delete changes nothing.
C7_DeleteIdempotent ==
    [][(last'.op = "delete" /\ ~Found(store, last'.sessionId, last'.userId)) =>
        last'.code = 200 /\ store' = store]_vars

\* A session already deleted has been deleted again while another session is
\* in the collection.
C7_Witness ==
    /\ last.op = "delete" /\ last.code = 200
    /\ last.arg.deletedCount = 0
    /\ last.sessionId \notin DOMAIN store
    /\ DOMAIN store # {}

\* C8: when a chat answer carries topic_completed = true and the topic under
\* the cursor is already completed, no status and no cursor changes and the
\* transcript grows by the user message and the reply only.
C8_StaleSignal ==
    [][(/\ last'.op = "chat" /\ last'.code = 200
        /\ last'.arg.pyRes.data.topic_completed
        /\ HasCurrentTopic(store[last'.sessionId])
        /\ store[last'.sessionId].studyPlan[store[last'.sessionId].currentTopicIndex + 1].status
               = "completed") =>
        LET before == store[last'.sessionId]
            after == store'[last'.sessionId]
        IN  /\ after.studyPlan = before.studyPlan
            /\ after.currentTopicIndex = before.currentTopicIndex
            /\ after.messages =
                   before.messages \o <<UserMsg(last'.arg.message),
                                         ReplyMsg(last'.arg.pyRes.data.response)>>]_vars

\* A chat answer has carried topic_completed = true to a session whose current
\* topic is completed, and the transcript ends with the reply.
C8_Witness ==
    /\ last.op = "chat" /\ last.code = 200
    /\ last.arg.pyRes.data.topic_completed
    /\ HasCurrentTopic(LastSession)
    /\ LastSession.studyPlan[LastSession.currentTopicIndex + 1].status = "completed"
    /\ LastMsg(LastSession) = ReplyMsg(last.arg.pyRes.data.response)

\* The parameter names one of the topics 0 .. n - 1: it is the numeral of the
\* index, with or without letters after it.
NamesTopic(param, n) ==
    \E i \in 0 .. n - 1 : param = Numeral(i) \/ param = Numeral(i) \o <<"x">>

\* C9: set-topic-status with an index that names no topic of the plan
\* (negative, the plan's length or more, not a number, or no plan) answers
\* 400 and leaves the plan, the cursor and the transcript as they are.
C9_InvalidIndex ==
    [][(/\ last'.op = "topic"
        /\ Found(store, last'.sessionId, last'.userId)
        /\ ~NamesTopic(last'.arg.param, Len(store[last'.sessionId].studyPlan))) =>
        last'.code = 400 /\ store' = store]_vars

\* A negative index has been refused on a session that has a plan of two
\* topics or more.
C9_Witness ==
    /\ last.op = "topic" /\ last.code = 400
    /\ last.arg.param = <<"-", "1">>
    /\ Len(LastSession.studyPlan) >= 2

\* C10: when the ingest call of attach-document fails, the request answers
\* with an error and the collection is as before: no session created, no
\* fingerprint, name or transcript entry added.
C10_IngestFailure ==
    [][(last'.op = "upload" /\ last'.arg.hasFile /\ ~last'.arg.pyRes.ok) =>
        last'.code = 500 /\ store' = store /\ nextId' = nextId]_vars

\* The ingest call has failed for a request that names a session of the
\* caller.
C10_Witness ==
    /\ last.op = "upload" /\ last.code = 500
    /\ Found(store, last.sessionId, last.userId)

\* C11: when the chat call of send-message fails, the request answers with an
\* error and the session is as before but for the user message appended at the
\* end of the transcript: no reply, the plan and the cursor unchanged.
C11_ChatGatewayFailure ==
    [][(/\ last'.op = "chat"
        /\ last'.sessionId # NoSessionId
        /\ Found(store, last'.sessionId, last'.userId)
        /\ ~last'.arg.pyRes.ok) =>
        /\ last'.code >= 400
        /\ store' = [store EXCEPT ![last'.sessionId].messages =
                                     Append(@, UserMsg(last'.arg.message))]]_vars

\* The chat call has failed on a session that has a plan, after an earlier
\* entry of the transcript: the user message is the last entry.
C11_Witness ==
    /\ last.op = "chat" /\ last.code = 503
    /\ Len(LastSession.studyPlan) > 0
    /\ Len(LastSession.messages) >= 3
    /\ LastMsg(LastSession) = UserMsg(last.arg.message)

\* C12: when the generate_plan call of generate-plan fails, the request
\* answers with an error and the plan, the cursor and the transcript are as
\* before.
C12_PlanGatewayFailure ==
    [][(/\ last'.op = "plan"
        /\ Found(store, last'.sessionId, last'.userId)
        /\ ~last'.arg.pyRes.ok) =>
        last'.code = 500 /\ store' = store]_vars

\* The generate_plan call has failed on a session that has a plan.
C12_Witness ==
    /\ last.op = "plan" /\ last.code = 500
    /\ Len(LastSession.studyPlan) > 0

\* C13: set-level with a level that is not beginner, intermediate or advanced
\* answers 400 and leaves the collection as it is: the level and every other
\* field of every session.
C13_InvalidLevel ==
    [][(last'.op = "level" /\ last'.arg.level \notin Levels) =>
        last'.code = 400 /\ store' = store]_vars

\* An unknown level has been refused on a session of the caller whose level
\* an earlier request had set to advanced.
C13_Witness ==
    /\ last.op = "level" /\ last.code = 400
    /\ last.arg.level = "expert"
    /\ Found(store, last.sessionId, last.userId)
    /\ LastSession.learningLevel = "advanced"

\* The sessions of the other owners, as the collection holds them.
ForeignTo(userId, st) ==
    [id \in {i \in DOMAIN st : st[i].userId # userId} |-> st[id]]

\* The owners of the documents the answer to a request carries: the session of
\* get-session, set-level, generate-plan and set-topic-status, the sessions of
\* list-sessions, the session whose id attach-document answers with.
ReturnedOwners(r, st) ==
    CASE r.op = "list" -> {st[e._id].userId : e \in r.arg.result}
      [] r.op \in {"get", "level"} /\ r.code = 200 ->
            IF r.arg.result = NoDocument THEN {} ELSE {r.arg.result.userId}
      [] r.op \in {"plan", "topic"} /\ r.code = 200 -> {st[r.sessionId].userId}
      [] r.op = "upload" /\ r.code = 200 -> {st[r.arg.sessionId].userId}
      [] OTHER -> {}

\* C14: whatever request an owner sends, with whatever session id, no session
\* of another owner is returned to it, and the sessions of the other owners
\* stay in the collection with every field as it was.
C14_OwnerIsolation ==
    [][/\ ForeignTo(last'.userId, store') = ForeignTo(last'.userId, store)
       /\ ReturnedOwners(last', store') \subseteq {last'.userId}]_vars

\* "u1", which has a session of its own, has asked for the session of "u2"
\* and has been answered 404.
C14_Witness ==
    /\ last.op = "get" /\ last.code = 404
    /\ last.sessionId \in DOMAIN store
    /\ store[last.sessionId].userId # last.userId
    /\ \E id \in DOMAIN store : store[id].userId = last.userId

\* What the caller sees of a request: the status code and the data of the
\* answer (a document, the id of the session of an upload, or none).
Outcome(r) ==
    [code |-> r.code,
     data |-> IF r.op \in {"get", "level"} /\ r.code = 200 THEN r.arg.result
              ELSE IF r.op = "upload" /\ r.code = 200 THEN [sessionId |-> r.arg.sessionId]
              ELSE NoDocument]

\* The outcome of a request whose session id names no session at all, by the
\* inputs of the request alone; fresh is the id a new session gets.
MissingOutcome(r, fresh) ==
    CASE r.op = "upload" ->
            IF ~r.arg.hasFile THEN [code |-> 400, data |-> NoDocument]
            ELSE IF ~r.arg.pyRes.ok THEN [code |-> 500, data |-> NoDocument]
            ELSE [code |-> 200, data |-> [sessionId |-> fresh]]
      [] r.op = "chat" ->
            [code |-> IF r.arg.message = 0 THEN 400 ELSE 404, data |-> NoDocument]
      [] r.op = "level" ->
            [code |-> IF r.arg.level \in Levels THEN 200 ELSE 400, data |-> NoDocument]
      [] r.op = "delete" -> [code |-> 200, data |-> NoDocument]
      [] r.op \in {"get", "plan", "topic"} -> [code |-> 404, data |-> NoDocument]

\* C15: for every route that takes a session id, a request whose id names the
\* session of another owner has the outcome (status code and data) of the
\* same request with an id that names no session.
C15_Indistinguishable ==
    [][(/\ last'.sessionId # NoSessionId
        /\ \/ last'.sessionId \notin DOMAIN store
           \/ store[last'.sessionId].userId # last'.userId) =>
        Outcome(last') = MissingOutcome(last', nextId)]_vars

\* "u1" has set a status on topic 0 of the session of "u2", which has that
\* topic, and has been answered 404, while another id names no session.
C15_Witness ==
    /\ last.op = "topic" /\ last.code = 404
    /\ last.arg.param = Numeral(0)
    /\ last.sessionId \in DOMAIN store
    /\ store[last.sessionId].userId # last.userId
    /\ Len(store[last.sessionId].studyPlan) > 0
    /\ SessionIds \ DOMAIN store # {}

\* C16: a get-session served while another request is in flight returns the
\* session as it was before that request or as it is after it; in particular
\* it never returns the document of a send-message whose user message is
\* saved while its reply is not.
C16_AtomicToReader ==
    [][(last' # last /\ last'.op = "get" /\ last'.code = 200) =>
        \A t \in Tasks :
            ~(/\ inflight[t].op = "chat" /\ inflight[t].pc = "asked"
              /\ inflight[t].sessionId = last'.sessionId
              /\ last'.arg.result = inflight[t].session
              /\ last'.arg.result # inflight[t].loaded)]_vars

\* Request t writes the session in this step: the first save of a
\* send-message, or the save that ends a request answered 200.
Saves(t) ==
    /\ inflight'[t].pc # inflight[t].pc
    /\ \/ inflight'[t].pc = "asked"
       \/ inflight'[t].pc = "done" /\ inflight'[t].code = 200

\* What a request makes of the document it has loaded, by its inputs alone.
Alone(r) ==
    IF r.op = "topic" THEN UpdateTopic(r.loaded, parseInt(r.arg.param).val, r.arg.status)
    ELSE IF r.pc = "asked" THEN WithUserMessage(r.loaded, r.arg.message)
    ELSE WithReply(WithUserMessage(r.loaded, r.arg.message), r.arg.pyRes.data)

\* C17: a save of a request persists what the request makes of the document
\* it loaded and nothing else, so that what another request has saved on the
\* same session since then is lost; the lost update is reached (C17_Witness).
C17_LostUpdate ==
    [][\A u \in Tasks :
          Saves(u) => store'[inflight[u].sessionId] = Alone(inflight'[u])]_vars

\* A send-message and a set-topic-status on the same session have both been
\* answered 200, the set-topic-status having loaded the session before the
\* send-message saved and saved after it: the transcript holds neither the
\* user message nor the reply.
C17_Witness ==
    \E t, u \in Tasks :
        /\ inflight[t].op = "chat" /\ inflight[t].pc = "done" /\ inflight[t].code = 200
        /\ inflight[u].op = "topic" /\ inflight[u].pc = "done" /\ inflight[u].code = 200
        /\ inflight[u].sessionId = inflight[t].sessionId
        /\ store[inflight[u].sessionId] = inflight[u].session
        /\ \A i \in 1 .. Len(store[inflight[u].sessionId].messages) :
               /\ store[inflight[u].sessionId].messages[i].role # "user"
               /\ store[inflight[u].sessionId].messages[i].content.kind # "text"

----------------------------------------------------------------------------
(* One session, every route that writes to it: its owner attaches the
   document again, sends messages, sets the level, generates plans and sets
   topics completed, one request after the other. *)

UploadOwn ==
    \E sessionId \in DOMAIN store :
        \/ Upload(store[sessionId].userId, sessionId, TRUE, "bytesA", 2, Failure(0))
        \/ Upload(store[sessionId].userId, sessionId, TRUE, "bytesA", 2,
                  Answer([cached |-> TRUE, summary |-> 1]))

LevelOwn ==
    \E sessionId \in DOMAIN store, level \in {"advanced", "expert"} :
        SetLevel(store[sessionId].userId, sessionId, level)

TopicCompleted ==
    \E sessionId \in DOMAIN store, param \in IndexNumerals :
        SetTopicStatus(store[sessionId].userId, sessionId, param, "completed")

NextSerial == UploadOwn \/ ChatOwn \/ LevelOwn \/ PlanOwn \/ TopicCompleted

SpecSerial == InitPlan /\ [][NextSerial]_vars

----------------------------------------------------------------------------
(* Two owners: the collection holds a session of "u2", with a document and a
   plan of MaxPlanLen topics.  "u1" attaches documents, lists, reads and
   deletes sessions and sets levels with any session id, and sends messages,
   generates plans and sets topic statuses with the ids that name no session
   of its own: the id of the session of "u2", and ids of no session. *)

InitOwners ==
    /\ store = Save(<<>>, 1,
                    ReplacePlan(AddFile(NewSession("u2"), calculateFileHash("bytesA"), 1, 1),
                                LongestPlan))
    /\ nextId = 2
    /\ last = Request("plan", "u2", 1, [pyRes |-> Answer(LongestPlan)], 200)
    /\ edited = {}
    /\ inflight = NoneInFlight

\* The ids that name no session of the user.
NotOwn(userId) == {id \in SessionIds : ~Found(store, id, userId)}

UploadU1 ==
    \E sessionId \in {NoSessionId} \cup SessionIds, content \in Contents :
        \/ Upload("u1", sessionId, FALSE, "bytesA", 1, Failure(0))
        \/ Upload("u1", sessionId, TRUE, content, 2, Failure(0))
        \/ Upload("u1", sessionId, TRUE, content, 2, Answer([cached |-> FALSE, summary |-> 1]))

ChatU1 ==
    \E sessionId \in NotOwn("u1"), message \in Messages \cup {0}, pyRes \in ChatOutcomes :
        Chat("u1", sessionId, message, pyRes)

ListU1 == ListSessions("u1")

GetU1 == \E sessionId \in SessionIds : GetSession("u1", sessionId)

DeleteU1 == \E sessionId \in SessionIds : DeleteSession("u1", sessionId)

LevelU1 ==
    \E sessionId \in SessionIds, level \in LevelInputs : SetLevel("u1", sessionId, level)

PlanU1 ==
    \E sessionId \in NotOwn("u1"), pyRes \in Outcomes(PlanResponses) :
        GeneratePlan("u1", sessionId, pyRes)

TopicU1 ==
    \E sessionId \in NotOwn("u1"), param \in IndexParams, status \in Statuses :
        SetTopicStatus("u1", sessionId, param, status)

NextOwners ==
    UploadU1 \/ ChatU1 \/ ListU1 \/ GetU1 \/ DeleteU1 \/ LevelU1 \/ PlanU1 \/ TopicU1

SpecOwners == InitOwners /\ [][NextOwners]_vars

\* seq is the beginning of of.
IsPrefix(seq, of) ==
    /\ Len(seq) <= Len(of)
    /\ \A i \in 1 .. Len(seq) : seq[i] = of[i]

\* C18: with the requests served one after the other, for every
\* attach-document, send-message, generate-plan, set-topic-status and
\* set-level the transcript before the request is the beginning of the
\* transcript after it: no entry removed, changed or moved.
C18_AppendOnly ==
    [][\A id \in DOMAIN store :
          id \in DOMAIN store' /\ IsPrefix(store[id].messages, store'[id].messages)]_vars

\* The level has been set on a session whose transcript holds a second
\* document entry, a user message and a plan announcement.
C18_Witness ==
    /\ last.op = "level" /\ last.code = 200
    /\ LET m == LastSession.messages
       IN  /\ Len(m) >= 4
           /\ m[1].content.kind = "analyzed"
           /\ \E i \in 2 .. Len(m) : m[i].content.kind = "analyzed"
           /\ \E i \in 2 .. Len(m) : m[i].role = "user"
           /\ \E i \in 2 .. Len(m) : m[i].content.kind = "planGenerated"

\* C19: when attach-document ends, on success or on failure, the temporary
\* file of the upload has been deleted.
C19_TempFileDeleted ==
    (last.op = "upload" /\ last.arg.hasFile) => last.arg.unlinked

\* The place of a status in the order pending, in-progress, completed.
Rank(status) ==
    CASE status = "pending" -> 0
      [] status = "in-progress" -> 1
      [] status = "completed" -> 2

\* C20, as stated: within one plan, no send-message and no set-topic-status
\* request moves a topic from completed to in-progress or pending, or from
\* in-progress to pending.
C20_OneDirectional ==
    [][(last'.op \in {"chat", "topic"} /\ last'.code = 200) =>
        LET before == store[last'.sessionId].studyPlan
            after == store'[last'.sessionId].studyPlan
        IN  \A j \in 1 .. Len(before) :
                Rank(after[j].status) >= Rank(before[j].status)]_vars

\* C20, amended: a send-message or set-topic-status request moves a topic
\* backward only where it assigns the status outright: set-topic-status in
\* the topic it names, which takes the status of the request, and the
\* automatic step of send-message in the topic after the cursor, which it
\* sets in-progress.
C20_BackwardOnlyWhereSet ==
    [][(last'.op \in {"chat", "topic"} /\ last'.code = 200) =>
        LET before == store[last'.sessionId].studyPlan
            after == store'[last'.sessionId].studyPlan
            cursor == store[last'.sessionId].currentTopicIndex
        IN  \A j \in 1 .. Len(before) :
                \/ Rank(after[j].status) >= Rank(before[j].status)
                \/ /\ last'.op = "topic"
                   /\ j = parseInt(last'.arg.param).val + 1
                   /\ after[j].status = last'.arg.status
                \/ /\ last'.op = "chat"
                   /\ j = cursor + 2
                   /\ after[j].status = "in-progress"]_vars

\* A topic has been set completed while the topic after it was completed
\* already, and that one is completed still.
C20_Witness ==
    /\ last.op = "topic" /\ last.code = 200
    /\ last.arg.status = "completed"
    /\ LastIndex + 1 < Len(LastSession.studyPlan)
    /\ LastSession.studyPlan[LastIndex + 2].status = "completed"
    /\ LastSession.currentTopicIndex = LastIndex + 1

\* C21, as stated: attach-document of bytes whose fingerprint is already among
\* the fingerprints of the session makes no ingest call.
C21_IngestOnlyWhenNew ==
    [][(/\ last'.op = "upload" /\ last'.code = 200
        /\ Found(store, last'.sessionId, last'.userId)
        /\ Includes(store[last'.sessionId].fileHashes,
                    calculateFileHash(last'.arg.content))) =>
        last'.arg.ingestCalls = 0]_vars

\* C21, amended: every attach-document that carries a file makes one ingest
\* call, the fingerprint new to the session or not; when it is not new the
\* fingerprints and names of the session stay as they are.
C21_IngestAlways ==
    [][(last'.op = "upload" /\ last'.arg.hasFile) =>
        /\ last'.arg.ingestCalls = 1
        /\ (/\ last'.code = 200
            /\ Found(store, last'.sessionId, last'.userId)
            /\ Includes(store[last'.sessionId].fileHashes,
                        calculateFileHash(last'.arg.content))) =>
               /\ store'[last'.sessionId].fileHashes = store[last'.sessionId].fileHashes
               /\ store'[last'.sessionId].filenames = store[last'.sessionId].filenames]_vars

\* The bytes of a document of the session have been attached to it again:
\* the ingest call has been made and has answered, the session has one
\* fingerprint and two document entries.
C21_Witness ==
    /\ last.op = "upload" /\ last.code = 200
    /\ last.arg.ingestCalls = 1
    /\ last.sessionId # NoSessionId
    /\ Found(store, last.sessionId, last.userId)
    /\ LastSession.fileHashes = <<calculateFileHash(last.arg.content)>>
    /\ Len(LastSession.messages) = 2

\* The session of the request served in this step, before it, and the topic
\* under its cursor.
Before == store[last'.sessionId]
After == store'[last'.sessionId]
Current(session) == session.studyPlan[session.currentTopicIndex + 1]

\* This step serves a send-message that the chat call answers with
\* topic_completed = true.
ChatCompleting ==
    /\ last'.op = "chat" /\ last'.code = 200
    /\ last'.arg.pyRes.data.topic_completed

\* The transcript grows by the user message, the reply and the entries tail.
Appends(tail) ==
    After.messages =
        Before.messages \o <<UserMsg(last'.arg.message),
                              ReplyMsg(last'.arg.pyRes.data.response)>> \o tail

\* C22: when a successful send-message receives topic_completed = true, the
\* topic under the cursor i is in-progress and topic i + 1 exists, topic i
\* becomes completed, topic i + 1 in-progress and the cursor i + 1, no other
\* topic changes and one transition entry follows the reply.
C22_AutoAdvance ==
    [][(/\ ChatCompleting
        /\ HasCurrentTopic(Before)
        /\ Current(Before).status = "in-progress"
        /\ Before.currentTopicIndex + 1 < Len(Before.studyPlan)) =>
        LET i == Before.currentTopicIndex
            plan == Before.studyPlan
        IN  /\ After.studyPlan =
                   [j \in 1 .. Len(plan) |->
                       IF j = i + 1 THEN [plan[j] EXCEPT !.status = "completed"]
                       ELSE IF j = i + 2 THEN [plan[j] EXCEPT !.status = "in-progress"]
                       ELSE plan[j]]
            /\ After.currentTopicIndex = i + 1
            /\ Appends(<<TopicCompletedMsg(plan[i + 1].topic, plan[i + 2].topic)>>)]_vars

\* The automatic step has moved a session from topic 0 to topic 1.
C22_Witness ==
    /\ last.op = "chat" /\ last.code = 200
    /\ LastSession.currentTopicIndex = 1
    /\ LastSession.studyPlan[1].status = "completed"
    /\ LastSession.studyPlan[2].status = "in-progress"
    /\ LastMsg(LastSession).content.kind = "topicCompleted"

\* C23: when a successful send-message receives topic_completed = true and
\* the in-progress topic under the cursor is the last of the plan, that topic
\* becomes completed, the cursor stays, no other topic changes and one
\* plan-complete entry follows the reply.
C23_AutoCompleteLast ==
    [][(/\ ChatCompleting
        /\ HasCurrentTopic(Before)
        /\ Current(Before).status = "in-progress"
        /\ Before.currentTopicIndex = Len(Before.studyPlan) - 1) =>
        /\ After.studyPlan =
               WithStatus(Before.studyPlan, Before.currentTopicIndex, "completed")
        /\ After.currentTopicIndex = Before.currentTopicIndex
        /\ Appends(<<CongratulationsMsg>>)]_vars

\* The automatic step has completed the one topic of a plan.
C23_Witness ==
    /\ last.op = "chat" /\ last.code = 200
    /\ Len(LastSession.studyPlan) = 1
    /\ LastSession.currentTopicIndex = 0
    /\ LastSession.studyPlan[1].status = "completed"
    /\ LastMsg(LastSession) = CongratulationsMsg

\* C24: the automatic step runs only when the topic under the cursor is
\* in-progress: when topic_completed = true arrives while that topic is
\* pending, or while no topic is current, no status and no cursor changes and
\* no entry follows the reply.
C24_AutoOnlyInProgress ==
    [][(/\ ChatCompleting
        /\ ~(HasCurrentTopic(Before) /\ Current(Before).status = "in-progress")) =>
        /\ After.studyPlan = Before.studyPlan
        /\ After.currentTopicIndex = Before.currentTopicIndex
        /\ Appends(<<>>)]_vars

\* This step serves a set-topic-status that stores status at a valid index.
TopicSetting(status) ==
    /\ last'.op = "topic" /\ last'.code = 200
    /\ last'.arg.status = status

\* The index a set-topic-status request names.
TopicIndexOf(request) == parseInt(request.arg.param).val

\* C25: set-topic-status(i, completed) on a plan whose topic i + 1 exists
\* and is already in-progress or completed leaves the status of topic i + 1,
\* the cursor and the transcript unchanged.
C25_PromotesOnlyPending ==
    [][(/\ TopicSetting("completed")
        /\ TopicIndexOf(last') + 1 < Len(Before.studyPlan)
        /\ Before.studyPlan[TopicIndexOf(last') + 2].status
               \in {"in-progress", "completed"}) =>
        /\ After.studyPlan[TopicIndexOf(last') + 2] =
               Before.studyPlan[TopicIndexOf(last') + 2]
        /\ After.currentTopicIndex = Before.currentTopicIndex
        /\ After.messages = Before.messages]_vars

\* Topic 0 was completed by hand while topic 1 was completed already: topic 1
\* is still completed and the cursor is still on it.
C25_Witness ==
    /\ last.op = "topic" /\ last.code = 200
    /\ last.arg.status = "completed" /\ TopicIndexOf(last) = 0
    /\ Len(LastSession.studyPlan) = 2
    /\ LastSession.studyPlan[2].status = "completed"
    /\ LastSession.currentTopicIndex = 1
    /\ LastMsg(LastSession).content.kind # "greatJob"

\* C26: set-topic-status(i, in-progress) on a valid index sets topic i to
\* in-progress and the cursor to i; every other topic, the transcript, the
\* documents and the learning level are unchanged.
C26_InProgressFrame ==
    [][TopicSetting("in-progress") =>
        After = [Before EXCEPT
                    !.studyPlan = WithStatus(@, TopicIndexOf(last'), "in-progress"),
                    !.currentTopicIndex = TopicIndexOf(last')]]_vars

\* Topic 0 was put in progress by hand while topic 1 was in progress: both
\* are in progress and the cursor is on topic 0.
C26_Witness ==
    /\ last.op = "topic" /\ last.code = 200
    /\ last.arg.status = "in-progress" /\ TopicIndexOf(last) = 0
    /\ Len(LastSession.studyPlan) = 2
    /\ LastSession.studyPlan[1].status = "in-progress"
    /\ LastSession.studyPlan[2].status = "in-progress"
    /\ LastSession.currentTopicIndex = 0

\* C27: the cursor of every session is the sentinel -1 or an index of its
\* plan, so it is -1 whenever the plan is empty.
C27_CursorValid ==
    \A id \in DOMAIN store :
        \/ store[id].currentTopicIndex = -1
        \/ /\ 0 <= store[id].currentTopicIndex
           /\ store[id].currentTopicIndex < Len(store[id].studyPlan)

\* The request served before this step was a send-message whose chat call
\* failed.
ChatFailed(request) ==
    /\ request.op = "chat"
    /\ "pyRes" \in DOMAIN request.arg
    /\ ~request.arg.pyRes.ok

\* C28: when send-message(m) fails at the chat call and the same request is
\* sent again and succeeds, the transcript holds the user message m twice,
\* once from each attempt, and then the reply.
C28_RetryDuplicates ==
    [][(/\ ChatFailed(last)
        /\ last'.op = "chat" /\ last'.code = 200
        /\ last'.sessionId = last.sessionId /\ last'.userId = last.userId
        /\ last'.arg.message = last.arg.message) =>
        LET k == Len(Before.messages)
        IN  /\ Before.messages[k] = UserMsg(last.arg.message)
            /\ Len(After.messages) >= k + 2
            /\ SubSeq(After.messages, 1, k + 2) =
                   Before.messages \o <<UserMsg(last'.arg.message),
                                         ReplyMsg(last'.arg.pyRes.data.response)>>]_vars

\* A send-message was answered after a failed attempt: the transcript ends
\* with the user message twice and the reply.
C28_Witness ==
    /\ last.op = "chat" /\ last.code = 200
    /\ Len(LastSession.messages) >= 3
    /\ LET n == Len(LastSession.messages)
       IN  /\ LastSession.messages[n - 2] = UserMsg(last.arg.message)
           /\ LastSession.messages[n - 1] = UserMsg(last.arg.message)
           /\ LastSession.messages[n] = ReplyMsg(last.arg.pyRes.data.response)

\* C29: a successful send-message appends the user message, then the reply,
\* then at most one transition or plan-complete entry, and nothing else.
C29_AppendOrder ==
    [][(last'.op = "chat" /\ last'.code = 200) =>
        \/ Appends(<<>>)
        \/ Appends(<<CongratulationsMsg>>)
        \/ /\ HasCurrentTopic(Before)
           /\ HasCurrentTopic(After)
           /\ Appends(<<TopicCompletedMsg(Current(Before).topic, Current(After).topic)>>)]_vars

\* A send-message appended three entries: the user message, the reply and a
\* transition entry.
C29_Witness ==
    /\ last.op = "chat" /\ last.code = 200
    /\ Len(LastSession.messages) >= 3
    /\ LET n == Len(LastSession.messages)
       IN  /\ LastSession.messages[n - 2] = UserMsg(last.arg.message)
           /\ LastSession.messages[n - 1] = ReplyMsg(last.arg.pyRes.data.response)
           /\ LastSession.messages[n].content.kind = "topicCompleted"

\* C31: attach-document with a session id that names no session of the
\* caller (no session at all, or a session of another owner) answers 200
\* after a successful ingest and creates a new session of the caller with
\* the one fingerprint, the one filename and one summary entry; every
\* session there was is unchanged.
C31_UnresolvedIdCreates ==
    [][(/\ last'.op = "upload"
        /\ last'.arg.hasFile
        /\ last'.arg.pyRes.ok
        /\ last'.sessionId # NoSessionId
        /\ \/ last'.sessionId \notin DOMAIN store
           \/ store[last'.sessionId].userId # last'.userId) =>
        /\ last'.code = 200
        /\ last'.arg.sessionId \notin DOMAIN store
        /\ DOMAIN store' = DOMAIN store \cup {last'.arg.sessionId}
        /\ \A id \in DOMAIN store : store'[id] = store[id]
        /\ LET created == store'[last'.arg.sessionId]
           IN  /\ created.userId = last'.userId
               /\ created.fileHashes = <<calculateFileHash(last'.arg.content)>>
               /\ created.filenames = <<last'.arg.filename>>
               /\ created.messages =
                      <<AnalyzedMsg(last'.arg.filename, last'.arg.pyRes.data.summary)>>]_vars

\* A document was attached with the id of a session of another owner: that
\* session is still there and the caller has a new one.
C31_Witness ==
    /\ last.op = "upload" /\ last.code = 200
    /\ last.sessionId \in DOMAIN store
    /\ store[last.sessionId].userId # last.userId
    /\ last.arg.sessionId # last.sessionId
    /\ store[last.arg.sessionId].userId = last.userId
    /\ Len(store[last.arg.sessionId].fileHashes) = 1
    /\ Len(store[last.arg.sessionId].messages) = 1

\* C32: set-level with a valid level on a session of the caller changes the
\* learning level of that session and nothing else, and what a send-message
\* or a set-topic-status makes of a session is the same, the level apart,
\* whatever the level of the session.
C32_LevelOnly ==
    [][/\ (/\ last'.op = "level" /\ last'.code = 200
           /\ Found(store, last'.sessionId, last'.userId)) =>
              store' = [store EXCEPT ![last'.sessionId].learningLevel = last'.arg.level]
       /\ (last'.op = "chat" /\ last'.code = 200) =>
              \A level \in Levels :
                  WithReply(WithUserMessage([Before EXCEPT !.learningLevel = level],
                                            last'.arg.message),
                            last'.arg.pyRes.data)
                      = [After EXCEPT !.learningLevel = level]
       /\ (last'.op = "topic" /\ last'.code = 200) =>
              \A level \in Levels :
                  UpdateTopic([Before EXCEPT !.learningLevel = level],
                              TopicIndexOf(last'), last'.arg.status)
                      = [After EXCEPT !.learningLevel = level]]_vars

\* The level of a session with a plan under way was set to a level other
\* than the default one; the plan, the cursor and the transcript are there.
C32_Witness ==
    /\ last.op = "level" /\ last.code = 200
    /\ Found(store, last.sessionId, last.userId)
    /\ LastSession.learningLevel = "advanced"
    /\ Len(LastSession.studyPlan) = MaxPlanLen
    /\ LastSession.currentTopicIndex = 1
    /\ Len(LastSession.messages) >= 2

----------------------------------------------------------------------------
(* The collection: users attach documents, which creates sessions, and delete
   sessions. *)

NextStore == UploadAct \/ DeleteAct

SpecStore == Init /\ [][NextStore]_vars

----------------------------------------------------------------------------
(* A cooperative chat service: the owner of the one session generates plans
   and sends chat messages, the status of no topic is set by hand, and every
   chat call answers with topic_completed = true.  Transcripts are followed
   to the length of a first upload, a plan, one such message for each topic
   of a longest plan and one message more. *)

CoopMsgs == 3 * MaxPlanLen + 4

ChatCoop ==
    \E sessionId \in DOMAIN store, message \in Messages, response \in Replies :
        ChatWithin(CoopMsgs, store[sessionId].userId, sessionId, message,
                   [ok |-> TRUE,
                    data |-> [response |-> response, topic_completed |-> TRUE],
                    status |-> 200])

NextCoop == ChatCoop \/ PlanOwn

SpecCoop == InitPlan /\ [][NextCoop]_vars

\* The place of the last plan-generated entry of a transcript, 0 for none.
RECURSIVE LastPlanEntry(_)
LastPlanEntry(messages) ==
    IF messages = <<>> THEN 0
    ELSE IF messages[Len(messages)].content.kind = "planGenerated"
    THEN Len(messages)
    ELSE LastPlanEntry(SubSeq(messages, 1, Len(messages) - 1))

\* The number of user messages since the plan was generated.
ChatsSincePlan(session) ==
    Cardinality({n \in LastPlanEntry(session.messages) + 1 .. Len(session.messages) :
                    session.messages[n].role = "user"})

\* C30: with every chat call answering topic_completed = true and no status
\* set by hand, k send-messages after the generation of a plan of N >= 1
\* topics the first k topics are completed, topic k is in progress under the
\* cursor while k < N, and from k = N on every topic is completed and the
\* cursor stays on the last one.
C30_CoopProgress ==
    \A id \in DOMAIN store :
        LET session == store[id]
            N == Len(session.studyPlan)
            k == ChatsSincePlan(session)
        IN  N >= 1 =>
            /\ \A j \in 1 .. N :
                   session.studyPlan[j].status =
                       IF j <= k THEN "completed"
                       ELSE IF j = k + 1 THEN "in-progress"
                       ELSE "pending"
            /\ session.currentTopicIndex = IF k < N THEN k ELSE N - 1

\* One send-message more than the topics of a longest plan has been served
\* since the plan was generated, and every topic is completed.
C30_Witness ==
    /\ last.op = "chat" /\ last.code = 200
    /\ Len(LastSession.studyPlan) = MaxPlanLen
    /\ ChatsSincePlan(LastSession) = MaxPlanLen + 1
    /\ AllCompleted(LastSession.studyPlan)

============================================================================
